---- MODULE Spec2Model ----
(***************************************************************************)
(* A model of kim's pipeline engine (kim/pipelines/base.py), of the String *)
(* and DateTime/Date pipelines built on it and of the field options        *)
(* (kim/field.py).                                                         *)
(*                                                                         *)
(* Python values are pairs <<type, payload>> so that values of different   *)
(* Python types are different values of the model: the integer 2 is        *)
(* <<"int", "2">> and the text "2" is <<"str", "2">>.                      *)
(***************************************************************************)
EXTENDS Naturals, Sequences, FiniteSets, TLC

VARIABLES
    field,           \* the Field under consideration: [cls, opts]
    given,           \* the keyword arguments its constructor received
    setter_calls,    \* how often the Field.name setter has been called
    mapper_session,  \* the mapper-level session: [data, output]
    session,         \* the Session of the Pipeline.run in progress
    pc,              \* "idle", "running" or "done": position in Pipeline.run
    idx,             \* position of the for loop in the chained pipe lists
    log,             \* the pipes called so far by the run, in call order
    last,            \* what the most recent pipe call did
    outcome,         \* how the most recent run ended
    entry,           \* the output object as it was when the run started
    direction,       \* "marshal" or "serialize": which pipeline is run
    runs,            \* how many runs the mapper session has seen
    first_data,      \* the data marshaled into what is now serialized
    supplied,        \* the names the Field.name setter has been given
    collection,      \* the Collection constructed around the field
    registry,        \* the names of the mappers registered so far
    nested,          \* the Nested field and what get_mapper last gave
    msgs,            \* the error message tables
    legacy,          \* the legacy Serializer classes and their Field wrappers
    collections      \* the Collections constructed around the field

\* The variables of a run of a pipeline, and those of declaring fields.
run_vars == <<direction, runs, first_data>>

decl_vars ==
    <<supplied, collection, registry, nested, msgs, legacy, collections>>

vars == <<field, given, setter_calls, mapper_session, session, pc, idx, log,
          last, outcome, entry, run_vars, decl_vars>>

----------------------------------------------------------------------------
(* Python values                                                           *)

None == <<"NoneType", "None">>

IntVal(r) == <<"int", r>>

StrVal(r) == <<"str", r>>

\* An object whose conversion to text raises ValueError.
BadObj == <<"object", "unprintable">>

BoolVal(r) == <<"bool", r>>

DictVal(f) == <<"dict", f>>

SetVal(S) == <<"set", S>>

ListVal(S) == <<"list", S>>

DateTimeVal(d, t, tz) == <<"datetime", [date |-> d, time |-> t, tz |-> tz]>>

DateVal(d) == <<"date", [date |-> d]>>

EmptyMap == [k \in {} |-> None]

\* Python's ==: True equals 1 and False equals 0; other values of the model
\* are equal only to themselves.
py_eq(a, b) ==
    LET num(v) == CASE v = BoolVal("True") -> "1"
                    [] v = BoolVal("False") -> "0"
                    [] OTHER -> v[2]
    IN  \/ a = b
        \/ /\ a[1] \in {"int", "bool"}
           /\ b[1] \in {"int", "bool"}
           /\ num(a) = num(b)

\* Mappings and lists cannot be hashed.
unhashable(v) == v[1] \in {"dict", "list"}

\* Python's `value in choices` for a list or a set that holds no
\* unhashable value.
contains(choices, value) == \E c \in choices[2] : py_eq(value, c)

\* The absent name: Python's None where a name string is expected.
NoneName == "<None>"

\* Python truthiness of a name: None and the empty string are falsy.
Truthy(n) == n \notin {NoneName, ""}

\* Python's `a or b`.
Or(a, b) == IF Truthy(a) THEN a ELSE b

\* kim.utils.attr_or_key: the key of a mapping (or the attribute of an
\* object), None when there is none.
attr_or_key(obj, key) ==
    IF obj[1] = "dict" /\ key \in DOMAIN obj[2] THEN obj[2][key] ELSE None

\* kim.utils.set_attr_or_key on the output target o, giving [exc, output]:
\* the attribute of an object is set, else the key of a mapping; TypeError
\* for a target that takes neither and for an attribute name that is None.
set_attr_or_key(o, name, value) ==
    IF o.attr
    THEN IF name = NoneName THEN [exc |-> "TypeError", output |-> o]
         ELSE [exc |-> "none",
               output |-> [o EXCEPT !.attrs = (name :> value) @@ o.attrs]]
    ELSE IF o.key
    THEN [exc |-> "none",
          output |-> [o EXCEPT !.items = (name :> value) @@ o.items]]
    ELSE [exc |-> "TypeError", output |-> o]

\* kim.utils.attr_or_key_update on the output target o, giving
\* [exc, output]: the entries of a mapping value become attributes or keys
\* of the target; TypeError for a value that has no entries and for a
\* target that takes neither.
attr_or_key_update(o, value) ==
    IF value[1] # "dict" THEN [exc |-> "TypeError", output |-> o]
    ELSE IF o.attr
    THEN [exc |-> "none", output |-> [o EXCEPT !.attrs = value[2] @@ o.attrs]]
    ELSE IF o.key
    THEN [exc |-> "none", output |-> [o EXCEPT !.items = value[2] @@ o.items]]
    ELSE [exc |-> "TypeError", output |-> o]

\* An exception raised by a library call, in place of its result.
ValueError == <<"raise", "ValueError">>

ParseError == <<"raise", "ParseError">>

AttributeError == <<"raise", "AttributeError">>

\* datetime.isoformat() and date.isoformat(); AttributeError for a value
\* that is neither.
isoformat(v) ==
    CASE v[1] = "datetime" ->
             StrVal(v[2].date \o "T" \o v[2].time \o v[2].tz)
      [] v[1] = "date" -> StrVal(v[2].date)
      [] OTHER -> AttributeError

\* six.text_type(value): the text form of a value; ValueError when the
\* conversion raises it.
text_type(v) ==
    CASE v[1] \in {"str", "int", "NoneType"} -> StrVal(v[2])
      [] v = BadObj -> ValueError
      [] v[1] = "dict" -> StrVal("{...}")
      [] OTHER -> StrVal("<object>")

\* iso8601.parse_date(value): the datetime an ISO-8601 text denotes;
\* ParseError for anything else.
parse_date(v) ==
    CASE v = StrVal("2015-01-01T00:00:00Z") ->
             DateTimeVal("2015-01-01", "00:00:00", "+00:00")
      [] v = StrVal("2015-01-01T00:00:00+00:00") ->
             DateTimeVal("2015-01-01", "00:00:00", "+00:00")
      [] v = StrVal("2015-06-30T12:30:00+01:00") ->
             DateTimeVal("2015-06-30", "12:30:00", "+01:00")
      [] OTHER -> ParseError

----------------------------------------------------------------------------
(* kim/field.py: FieldOpts and Field                                       *)

\* The mutated set_name takes the name it is given when there is one.
set_name_LastWins(opts, name, attribute_name, source) ==
    LET an == Or(opts.attribute_name, attribute_name)
        nm == Or(Or(name, opts.name), an)
        src == Or(Or(opts.source, source), nm)
    IN  [opts EXCEPT !.attribute_name = an, !.name = nm, !.source = src]

\* The mutated set_name lets name fall back to source.
set_name_SourceFallback(opts, name, attribute_name, source) ==
    LET an == Or(opts.attribute_name, attribute_name)
        nm == Or(Or(Or(opts.name, name), an), source)
        src == Or(Or(opts.source, source), nm)
    IN  [opts EXCEPT !.attribute_name = an, !.name = nm, !.source = src]

\* FieldOpts.set_name
set_name(opts, name, attribute_name, source) ==
    LET an == Or(opts.attribute_name, attribute_name)
        nm == Or(Or(opts.name, name), an)
        src == Or(Or(opts.source, source), nm)
    IN  [opts EXCEPT !.attribute_name = an, !.name = nm, !.source = src]

\* FieldOpts.__init__ with keyword arguments kw.
FieldOpts(kw) ==
    set_name([name |-> NoneName, attribute_name |-> NoneName,
              source |-> NoneName,
              is_wrapped |-> kw.is_wrapped,
              required |-> kw.required,
              default |-> kw.default,
              allow_none |-> kw.allow_none,
              read_only |-> kw.read_only,
              choices |-> kw.choices],
             kw.name, kw.attribute_name, kw.source)

\* FieldOpts.get_name
get_name(opts) == opts.name

\* StaticFieldOpts.__init__
StaticFieldOpts(kw) == [FieldOpts(kw) EXCEPT !.read_only = TRUE]

\* The default true_boolean_values and false_boolean_values.
true_boolean_values ==
    {BoolVal("True"), StrVal("true"), StrVal("1"), IntVal("1"),
     StrVal("True")}

false_boolean_values ==
    {BoolVal("False"), StrVal("false"), StrVal("0"), IntVal("0"),
     StrVal("False")}

\* BooleanFieldOpts.__init__: the two lists are those of kw when it has
\* them.
BooleanFieldOpts(kw) ==
    LET tv == IF "true_boolean_values" \in DOMAIN kw
              THEN kw.true_boolean_values ELSE true_boolean_values
        fv == IF "false_boolean_values" \in DOMAIN kw
              THEN kw.false_boolean_values ELSE false_boolean_values
        o == FieldOpts(kw)
    IN  [name |-> o.name, attribute_name |-> o.attribute_name,
         source |-> o.source, is_wrapped |-> o.is_wrapped,
         required |-> o.required, default |-> o.default,
         allow_none |-> o.allow_none, read_only |-> o.read_only,
         choices |-> SetVal(tv \cup fv),
         true_boolean_values |-> tv, false_boolean_values |-> fv]

\* The opts_class of the field class cls, constructed.
opts_class(cls, kw) ==
    CASE cls = "Static" -> StaticFieldOpts(kw)
      [] cls = "Boolean" -> BooleanFieldOpts(kw)
      [] OTHER -> FieldOpts(kw)

\* Field.__init__ for the field class cls
Field(cls, kw) == [cls |-> cls, opts |-> opts_class(cls, kw)]

\* Field.name (getter): TRUE when it returns, FALSE when it raises FieldError
name_resolves(f) == Truthy(get_name(f.opts))

\* How many calls of the name setter are followed.
MaxSetterCalls == 2

\* Field.name (setter)
name_setter(f, name) ==
    [f EXCEPT !.opts = set_name(f.opts, name, NoneName, NoneName)]

\* The mutated getter raises only for a name that is None.
name_getter_NoneOnly(f) ==
    IF get_name(f.opts) = NoneName
    THEN [exc |-> "FieldError", value |-> NoneName]
    ELSE [exc |-> "none", value |-> get_name(f.opts)]

\* Field.name (getter): the name it returns or the exception it raises
name_getter(f) ==
    IF ~Truthy(get_name(f.opts))
    THEN [exc |-> "FieldError", value |-> NoneName]
    ELSE [exc |-> "none", value |-> get_name(f.opts)]

\* DEFAULT_ERROR_MSGS
DEFAULT_ERROR_MSGS ==
    [required |-> "This is a required field",
     type_error |-> "Invalid type",
     not_found |-> "{name} not found",
     none_not_allowed |-> "This field cannot be null",
     invalid_choice |-> "invalid choice",
     duplicates |-> "duplicates found"]

\* dict.update: the entries of u added to d, replacing those d has.
dict_update(d, u) ==
    [k \in DOMAIN d \cup DOMAIN u |-> IF k \in DOMAIN u THEN u[k] ELSE d[k]]

\* The error_msgs that FieldOpts.__init__ makes from the default table, the
\* extra_error_msgs of its class and the error_msgs option opt, which is
\* [passed, value]: `opts.pop('error_msgs', self.extra_error_msgs)`.
error_msgs(defaults, extra_error_msgs, opt) ==
    dict_update(defaults,
                IF opt.passed THEN opt.value ELSE extra_error_msgs)

\* The mutated statements update the default table itself.
FieldOpts_error_msgs_NoCopy(table, extra_error_msgs, opt) ==
    [DEFAULT_ERROR_MSGS |-> error_msgs(table, extra_error_msgs, opt),
     error_msgs |-> error_msgs(table, extra_error_msgs, opt)]

\* The two statements of FieldOpts.__init__ that make self.error_msgs, run
\* when the module's DEFAULT_ERROR_MSGS holds table: the table as they leave
\* it (they update a copy) and the error_msgs of the new options.
FieldOpts_error_msgs(table, extra_error_msgs, opt) ==
    [DEFAULT_ERROR_MSGS |-> table,
     error_msgs |-> error_msgs(table, extra_error_msgs, opt)]

\* Field.get_error: the message template for error_type, or KeyError.
get_error(opts_error_msgs, error_type) ==
    IF error_type \in DOMAIN opts_error_msgs
    THEN [exc |-> "none", msg |-> opts_error_msgs[error_type]]
    ELSE [exc |-> "KeyError", msg |-> "none"]

\* The message tables before any field has been constructed.
NoMsgs == [defaults |-> DEFAULT_ERROR_MSGS, fields |-> <<>>]

\* No Collection has been constructed.
NoCollection ==
    [made |-> FALSE, arg |-> "none", given |-> [name |-> NoneName],
     exc |-> "none", msg |-> "none", opts |-> [name |-> NoneName]]

\* `self.field.name` in CollectionFieldOpts.__init__, for the first argument
\* arg = [kind, field]: a Field instance runs the getter; a Field class
\* gives its property object; None and plain values have no such attribute.
getattr_name(arg) ==
    CASE arg.kind = "Field" -> name_getter(arg.field)
      [] arg.kind = "class" -> [exc |-> "none", value |-> "<property>"]
      [] OTHER -> [exc |-> "AttributeError", value |-> NoneName]

\* CollectionFieldOpts.validate
CollectionFieldOpts_validate(arg) ==
    IF arg.kind # "Field" THEN "FieldOptsError" ELSE "none"

\* CollectionFieldOpts.__init__ (with CollectionFieldOpts.set_name, which
\* FieldOpts.__init__ calls): the exception it raises, the options it
\* makes and the inner field as it leaves it.
CollectionFieldOpts(arg, kw) ==
    LET r == getattr_name(arg)
    IN  IF r.exc = "AttributeError"
        THEN [exc |-> "AttributeError", msg |-> "no attribute name",
              field |-> arg.field, opts |-> NoCollection.opts]
        ELSE IF r.exc # "FieldError"
        THEN [exc |-> "FieldError", msg |-> "wrapped field names",
              field |-> arg.field, opts |-> NoCollection.opts]
        ELSE LET wrapped == [arg.field EXCEPT !.opts.is_wrapped = TRUE]
                 inner ==
                   [wrapped EXCEPT
                      !.opts = set_name(@, kw.name, kw.attribute_name,
                                        kw.source)]
             IN  [exc |-> CollectionFieldOpts_validate(arg),
                  msg |-> "requires a Field instance",
                  field |-> inner, opts |-> FieldOpts(kw)]

\* CollectionFieldOpts.set_name on the options opts of a Collection around
\* the field inner: the options and the inner field as it leaves them.
CollectionFieldOpts_set_name(opts, inner, name, attribute_name, source) ==
    [field |-> [inner EXCEPT
                  !.opts = set_name(@, name, attribute_name, source)],
     opts |-> set_name(opts, name, attribute_name, source)]

\* CollectionFieldOpts.get_name, `self.field.name`: the getter of the inner
\* field.
CollectionFieldOpts_get_name(inner) == name_getter(inner)

\* Field.__init__ of a Collection: FieldOptsError becomes FieldError.
Collection(arg, kw) ==
    LET o == CollectionFieldOpts(arg, kw)
    IN  IF o.exc = "FieldOptsError"
        THEN [o EXCEPT !.exc = "FieldError", !.msg = "invalid options"]
        ELSE IF o.exc = "none" THEN [o EXCEPT !.msg = "none"]
        ELSE o

\* What get_mapper gives before it has been called.
NoMapper == [exc |-> "none", kind |-> "none", mapper |-> "none"]

\* No Nested field has been constructed.
NoNested ==
    [made |-> FALSE, exc |-> "none",
     opts |-> [mapper |-> [kind |-> "none", id |-> "none"]],
     registered |-> {}, calls |-> 0, seen |-> {}, result |-> NoMapper]

\* NestedFieldOpts.__init__ for the mapper reference ref = [kind, id]: a
\* mapper name, a Mapper class or another class.
NestedFieldOpts(ref, kw) ==
    [mapper |-> ref, role |-> "__default__", getter |-> None,
     allow_updates |-> FALSE, allow_create |-> FALSE,
     base |-> FieldOpts(kw)]

\* kim.mapper.get_mapper_from_registry, for the registry reg (the set of
\* registered mapper names): the class found, or FieldError.
get_mapper_from_registry(ref, reg) ==
    CASE ref.kind = "name" /\ ref.id \in reg ->
           [exc |-> "none", kind |-> "class", mapper |-> ref.id]
      [] ref.kind = "mapper_class" ->
           [exc |-> "none", kind |-> "class", mapper |-> ref.id]
      [] OTHER -> [exc |-> "FieldError", kind |-> "none", mapper |-> "none"]

\* The mutated get_mapper hands back the reference without resolving it.
get_mapper_Unresolved(opts, reg, as_class) ==
    [exc |-> "none", kind |-> IF as_class THEN "class" ELSE "instance",
     mapper |-> opts.mapper.id]

\* Nested.get_mapper
get_mapper(opts, reg, as_class) ==
    LET mapper == get_mapper_from_registry(opts.mapper, reg)
    IN  IF mapper.exc # "none" THEN mapper
        ELSE IF as_class THEN mapper
        ELSE [mapper EXCEPT !.kind = "instance"]

----------------------------------------------------------------------------
(* kim/serializers.py: the legacy declarative Serializer.  A Field wrapper *)
(* is an object with a params dict; a class body is a map from attribute   *)
(* names to the wrapper assigned there, or to "other" for a value that is  *)
(* not a Field.                                                            *)

\* No wrapper has been made and no Serializer class declared.
NoLegacy == [listed |-> EmptyMap, params |-> EmptyMap, classes |-> <<>>]

\* dict.setdefault
setdefault(d, k, v) == IF k \in DOMAIN d THEN d ELSE (k :> v) @@ d

\* SerializerMetaclass.__new__ up to build_mapping: the declared_fields of
\* the new class, from its body attrs and the declared_fields of its base.
declared_fields(attrs, base_fields) ==
    LET current == {k \in DOMAIN attrs : attrs[k] # "other"}
        shadowed == DOMAIN attrs \ current
    IN  [k \in (DOMAIN base_fields \ shadowed) \cup current |->
            IF k \in current THEN attrs[k] ELSE base_fields[k]]

\* SerializerMetaclass.build_mapping: the loop over declared_fields.items()
\* in the order given, from the params of the wrappers and the mapping made
\* so far; it gives the params it leaves and the mapping.
RECURSIVE build_mapping(_, _, _, _)
build_mapping(order, declared, params, mapping) ==
    IF order = <<>> THEN [params |-> params, mapping |-> mapping]
    ELSE LET name == Head(order)
             w == declared[name]
             p == setdefault(params[w], "source", name)
             f == [field_type |-> "Type", name |-> name,
                   source |-> p["source"]]
         IN  build_mapping(Tail(order), declared,
                           [params EXCEPT ![w] = p],
                           (name :> f) @@ mapping)

----------------------------------------------------------------------------
(* Results of calling a pipe on a session                                  *)

\* The call returned ret and left the session as s.
Returned(s, ret, invoked) ==
    [data |-> s.data, output |-> s.output, ret |-> ret,
     exc |-> "none", err |-> "none", invoked |-> invoked]

\* The call raised exc; err is the error kind of a FieldInvalid.
Raised(s, exc, err) ==
    [data |-> s.data, output |-> s.output, ret |-> None,
     exc |-> exc, err |-> err, invoked |-> TRUE]

\* Field.invalid (with Field.get_error, which reads Field.name first)
invalid(f, s, error_type) ==
    IF name_resolves(f)
    THEN Raised(s, "FieldInvalid", error_type)
    ELSE Raised(s, "FieldError", "name")

----------------------------------------------------------------------------
(* kim/pipelines/base.py: the pipe functions.  Each takes the field f and  *)
(* the session s = [data, output] and gives the session it leaves, the     *)
(* value it returns and the exception it raises.                           *)

\* The mutated get_data_from_name checks allow_none before the default.
get_data_from_name_NoneFirst(f, s) ==
    IF f.opts.is_wrapped THEN Returned(s, s.data, TRUE)
    ELSE IF ~name_resolves(f) THEN Raised(s, "FieldError", "name")
    ELSE LET value == attr_or_key(s.data, get_name(f.opts))
         IN  IF value = None /\ f.opts.required /\ f.opts.default = None
             THEN invalid(f, s, "required")
             ELSE IF value = None /\ ~f.opts.allow_none
             THEN invalid(f, s, "none_not_allowed")
             ELSE IF value = None /\ f.opts.default # None
             THEN Returned([s EXCEPT !.data = f.opts.default],
                           f.opts.default, TRUE)
             ELSE Returned([s EXCEPT !.data = value], value, TRUE)

\* get_data_from_name
get_data_from_name(f, s) ==
    IF f.opts.is_wrapped THEN Returned(s, s.data, TRUE)
    ELSE IF ~name_resolves(f) THEN Raised(s, "FieldError", "name")
    ELSE LET value == attr_or_key(s.data, get_name(f.opts))
         IN  IF value = None /\ f.opts.required /\ f.opts.default = None
             THEN invalid(f, s, "required")
             ELSE IF value = None /\ f.opts.default # None
             THEN Returned([s EXCEPT !.data = f.opts.default],
                           f.opts.default, TRUE)
             ELSE IF value = None /\ ~f.opts.allow_none
             THEN invalid(f, s, "none_not_allowed")
             ELSE Returned([s EXCEPT !.data = value], value, TRUE)

\* read_only
read_only(f, s) ==
    IF f.opts.read_only
    THEN Raised(s, "StopPipelineExecution", "read_only field")
    ELSE Returned(s, s.data, TRUE)

\* The mutated is_valid_choice accepts every value.
is_valid_choice_NoCheck(f, s) == Returned(s, s.data, TRUE)

\* is_valid_choice
is_valid_choice(f, s) ==
    IF f.opts.choices = None THEN Returned(s, s.data, TRUE)
    ELSE IF f.opts.choices[1] = "set" /\ unhashable(s.data)
    THEN Raised(s, "TypeError", "unhashable")
    ELSE IF ~contains(f.opts.choices, s.data)
    THEN invalid(f, s, "invalid_choice")
    ELSE Returned(s, s.data, TRUE)

\* The mutated get_data_from_source looks the source up for wrapped fields
\* too.
get_data_from_source_LooksUpWrapped(f, s) ==
    IF f.opts.source = "__self__" THEN Returned(s, s.data, TRUE)
    ELSE LET value == attr_or_key(s.data, f.opts.source)
         IN  Returned([s EXCEPT !.data = value], value, TRUE)

\* The mutated get_data_from_source applies the required check of
\* get_data_from_name.
get_data_from_source_Gated(f, s) ==
    IF f.opts.is_wrapped \/ f.opts.source = "__self__"
    THEN Returned(s, s.data, TRUE)
    ELSE LET value == attr_or_key(s.data, f.opts.source)
         IN  IF value = None /\ f.opts.required
             THEN invalid(f, s, "required")
             ELSE Returned([s EXCEPT !.data = value], value, TRUE)

\* get_data_from_source
get_data_from_source(f, s) ==
    IF f.opts.is_wrapped \/ f.opts.source = "__self__"
    THEN Returned(s, s.data, TRUE)
    ELSE LET value == attr_or_key(s.data, f.opts.source)
         IN  Returned([s EXCEPT !.data = value], value, TRUE)

\* The mutated update_output_to_name leaves only its own entry.
update_output_to_name_Clobbers(f, s) ==
    IF ~name_resolves(f) THEN Raised(s, "FieldError", "name")
    ELSE IF s.output.attr
    THEN Returned([s EXCEPT !.output.attrs = (get_name(f.opts) :> s.data)],
                  None, TRUE)
    ELSE IF s.output.key
    THEN Returned([s EXCEPT !.output.items = (get_name(f.opts) :> s.data)],
                  None, TRUE)
    ELSE Raised(s, "FieldError", "output")

\* The mutated update_output_to_name tries the key-style set first.
update_output_to_name_KeyFirst(f, s) ==
    IF ~name_resolves(f) THEN Raised(s, "FieldError", "name")
    ELSE IF s.output.key
    THEN Returned([s EXCEPT !.output.items =
                       (get_name(f.opts) :> s.data) @@ s.output.items],
                  None, TRUE)
    ELSE IF s.output.attr
    THEN Returned([s EXCEPT !.output.attrs =
                       (get_name(f.opts) :> s.data) @@ s.output.attrs],
                  None, TRUE)
    ELSE Raised(s, "FieldError", "output")

\* update_output_to_name: setattr, on AttributeError the key-style set, on
\* its TypeError a FieldError.
update_output_to_name(f, s) ==
    IF ~name_resolves(f) THEN Raised(s, "FieldError", "name")
    ELSE IF s.output.attr
    THEN Returned([s EXCEPT !.output.attrs =
                       (get_name(f.opts) :> s.data) @@ s.output.attrs],
                  None, TRUE)
    ELSE IF s.output.key
    THEN Returned([s EXCEPT !.output.items =
                       (get_name(f.opts) :> s.data) @@ s.output.items],
                  None, TRUE)
    ELSE Raised(s, "FieldError", "output")

\* The mutated update_output_to_source has no case for '__self__'.
update_output_to_source_NoSelf(f, s) ==
    LET o == set_attr_or_key(s.output, f.opts.source, s.data)
    IN  IF o.exc # "none" THEN Raised(s, "FieldError", "output")
        ELSE Returned([s EXCEPT !.output = o.output], None, TRUE)

\* update_output_to_source
update_output_to_source(f, s) ==
    LET o == IF f.opts.source = "__self__"
             THEN attr_or_key_update(s.output, s.data)
             ELSE set_attr_or_key(s.output, f.opts.source, s.data)
    IN  IF o.exc # "none" THEN Raised(s, "FieldError", "output")
        ELSE Returned([s EXCEPT !.output = o.output], None, TRUE)

----------------------------------------------------------------------------
(* kim/pipelines/string.py and kim/pipelines/datetime.py                   *)

\* is_valid_string: returns the text and leaves session.data alone.
is_valid_string(f, s) ==
    IF text_type(s.data) = ValueError
    THEN invalid(f, s, "type_error")
    ELSE Returned(s, text_type(s.data), TRUE)

\* is_valid_datetime
is_valid_datetime(f, s) ==
    IF s.data # None
    THEN IF parse_date(s.data) = ParseError
         THEN invalid(f, s, "type_error")
         ELSE Returned([s EXCEPT !.data = parse_date(s.data)],
                       parse_date(s.data), TRUE)
    ELSE Returned(s, s.data, TRUE)

\* cast_to_date
cast_to_date(f, s) ==
    IF s.data # None
    THEN IF s.data[1] = "datetime"
         THEN Returned([s EXCEPT !.data = DateVal(s.data[2].date)],
                       DateVal(s.data[2].date), TRUE)
         ELSE Raised(s, "AttributeError", "date")
    ELSE Returned(s, s.data, TRUE)

\* The mutated format_datetime formats the date and drops the time.
format_datetime_DateOnly(f, s) ==
    IF s.data # None
    THEN IF isoformat(s.data) = AttributeError
         THEN Raised(s, "AttributeError", "isoformat")
         ELSE Returned([s EXCEPT !.data = StrVal(s.data[2].date)],
                       StrVal(s.data[2].date), TRUE)
    ELSE Returned(s, s.data, TRUE)

\* format_datetime
format_datetime(f, s) ==
    IF s.data # None
    THEN IF isoformat(s.data) = AttributeError
         THEN Raised(s, "AttributeError", "isoformat")
         ELSE Returned([s EXCEPT !.data = isoformat(s.data)],
                       isoformat(s.data), TRUE)
    ELSE Returned(s, s.data, TRUE)

\* kim/pipelines/boolean.py: the pipe that makes the value a boolean, True
\* for a value of true_boolean_values.
coerce_to_boolean(f, s) ==
    LET b == IF \E c \in f.opts.true_boolean_values : py_eq(s.data, c)
             THEN BoolVal("True") ELSE BoolVal("False")
    IN  Returned([s EXCEPT !.data = b], b, TRUE)

----------------------------------------------------------------------------
(* kim/pipelines/base.py: Pipe, the @pipe decorator and Pipeline           *)

\* The run_if_none keyword each pipe function is decorated with.
run_if_none(p) == p \in {"update_output_to_name", "update_output_to_source"}

\* The function a pipe wraps, applied to the session.
func(p, f, s) ==
    CASE p = "get_data_from_name" -> get_data_from_name(f, s)
      [] p = "read_only" -> read_only(f, s)
      [] p = "is_valid_choice" -> is_valid_choice(f, s)
      [] p = "update_output_to_name" -> update_output_to_name(f, s)
      [] p = "is_valid_string" -> is_valid_string(f, s)
      [] p = "is_valid_datetime" -> is_valid_datetime(f, s)
      [] p = "cast_to_date" -> cast_to_date(f, s)
      [] p = "get_data_from_source" -> get_data_from_source(f, s)
      [] p = "update_output_to_source" -> update_output_to_source(f, s)
      [] p = "format_datetime" -> format_datetime(f, s)
      [] p = "coerce_to_boolean" -> coerce_to_boolean(f, s)

\* The mutated Pipe.run ignores run_if_none: a null value skips every pipe.
Pipe_run_SkipsAllOnNone(p, f, s) ==
    IF s.data # None THEN func(p, f, s) ELSE Returned(s, s.data, FALSE)

\* Pipe.run (through Pipe.__call__ and the wrapper of the pipe decorator)
Pipe_run(p, f, s) ==
    IF s.data # None THEN func(p, f, s)
    ELSE IF s.data = None /\ run_if_none(p) THEN func(p, f, s)
    ELSE Returned(s, s.data, FALSE)

\* Pipeline: the four pipe lists of the base class are empty.
Pipeline ==
    [input_pipes |-> <<>>, validation_pipes |-> <<>>,
     process_pipes |-> <<>>, output_pipes |-> <<>>]

\* kim/pipelines/marshaling.py: MarshalPipeline
MarshalPipeline ==
    [Pipeline EXCEPT !.input_pipes = <<"get_data_from_name">>,
                     !.process_pipes = <<"read_only">>,
                     !.output_pipes = <<"update_output_to_name">>]

\* StringMarshalPipeline
StringMarshalPipeline ==
    [MarshalPipeline EXCEPT !.validation_pipes =
        <<"is_valid_string", "is_valid_choice">>
            \o MarshalPipeline.validation_pipes]

\* DateTimeMarshalPipeline
DateTimeMarshalPipeline ==
    [MarshalPipeline EXCEPT !.validation_pipes =
        <<"is_valid_datetime", "is_valid_choice">>
            \o MarshalPipeline.validation_pipes]

\* DateMarshalPipeline
DateMarshalPipeline ==
    [DateTimeMarshalPipeline EXCEPT !.process_pipes =
        <<"cast_to_date">> \o MarshalPipeline.process_pipes]

\* kim/pipelines/boolean.py: BooleanMarshalPipeline
BooleanMarshalPipeline ==
    [MarshalPipeline EXCEPT
        !.validation_pipes =
            <<"is_valid_choice">> \o MarshalPipeline.validation_pipes,
        !.process_pipes =
            <<"coerce_to_boolean">> \o MarshalPipeline.process_pipes]

\* The marshal_pipeline attribute of each field class.
marshal_pipeline(cls) ==
    CASE cls \in {"Field", "Static"} -> MarshalPipeline
      [] cls = "String" -> StringMarshalPipeline
      [] cls = "DateTime" -> DateTimeMarshalPipeline
      [] cls = "Date" -> DateMarshalPipeline
      [] cls = "Boolean" -> BooleanMarshalPipeline

\* kim/pipelines/serialization.py: SerializePipeline
SerializePipeline ==
    [Pipeline EXCEPT !.input_pipes = <<"get_data_from_source">>,
                     !.validation_pipes = <<"is_valid_choice">>,
                     !.output_pipes = <<"update_output_to_name">>]

\* StringSerializePipeline
StringSerializePipeline == SerializePipeline

\* DateTimeSerializePipeline
DateTimeSerializePipeline ==
    [SerializePipeline EXCEPT !.process_pipes =
        <<"format_datetime">> \o SerializePipeline.process_pipes]

\* DateSerializePipeline
DateSerializePipeline == DateTimeSerializePipeline

\* The serialize_pipeline attribute of each field class.
serialize_pipeline(cls) ==
    CASE cls = "Field" -> SerializePipeline
      [] cls = "String" -> StringSerializePipeline
      [] cls = "DateTime" -> DateTimeSerializePipeline
      [] cls = "Date" -> DateSerializePipeline

\* The pipeline that Field.marshal and Field.serialize run.
pipeline(dir, cls) ==
    IF dir = "serialize" THEN serialize_pipeline(cls)
    ELSE marshal_pipeline(cls)

\* The mutated chain runs the output pipes first.
chain_OutputFirst(pl) ==
    pl.output_pipes \o pl.input_pipes \o pl.validation_pipes
        \o pl.process_pipes

\* itertools.chain over the four lists, as Pipeline.run calls it.
chain(pl) ==
    pl.input_pipes \o pl.validation_pipes \o pl.process_pipes
        \o pl.output_pipes

\* The mutated handler catches nothing: StopPipelineExecution propagates.
run_catches_Nothing(exc) == FALSE

\* The mutated handler catches every exception.
run_catches_Everything(exc) == TRUE

\* The except clause of Pipeline.run: the exceptions it catches.
run_catches(exc) == exc = "StopPipelineExecution"

\* An output target: whether it takes attribute-style and key-style sets,
\* and the attributes and items it holds.
Target(attr, key, attrs, items) ==
    [attr |-> attr, key |-> key, attrs |-> attrs, items |-> items]

NoTarget == Target(FALSE, FALSE, EmptyMap, EmptyMap)

NoCall ==
    [pipe |-> "none", invoked |-> FALSE, data_before |-> None,
     output_before |-> NoTarget, ret |-> None, func_data |-> None,
     exc |-> "none", err |-> "none"]

NoOutcome ==
    [kind |-> "none", exc |-> "none", err |-> "none", value |-> NoTarget]

\* The loop body of Pipeline.run, `pipe(session)`: the value of session.data
\* after the call is what the pipe function assigned, not what it returned.
store(r) == r.data

\* The mutated Session starts without data.
Session_NoData(data, output) == [data |-> None, output |-> output]

\* Session.__init__: the session's data and output are the ones given.
Session(data, output) == [data |-> data, output |-> output]

\* Field.marshal: Pipeline.run up to the loop, which makes the Session.
marshal ==
    /\ pc \in {"idle"}
    /\ session' = Session(mapper_session.data, mapper_session.output)
    /\ pc' = "running"
    /\ idx' = 1
    /\ log' = <<>>
    /\ last' = NoCall
    /\ outcome' = NoOutcome
    /\ entry' = mapper_session.output
    /\ direction' = "marshal"
    /\ runs' = runs + 1
    /\ UNCHANGED <<field, given, setter_calls, mapper_session, first_data,
                   decl_vars>>

\* Field.serialize: Pipeline.run up to the loop, which makes the Session.
serialize ==
    /\ pc \in {"idle"}
    /\ session' = Session(mapper_session.data, mapper_session.output)
    /\ pc' = "running"
    /\ idx' = 1
    /\ log' = <<>>
    /\ last' = NoCall
    /\ outcome' = NoOutcome
    /\ entry' = mapper_session.output
    /\ direction' = "serialize"
    /\ runs' = runs + 1
    /\ UNCHANGED <<field, given, setter_calls, mapper_session, first_data,
                   decl_vars>>

\* One round of the loop of Pipeline.run: the next pipe of the chain is
\* called on the session; an exception ends the run.
call_pipe ==
    /\ pc = "running"
    /\ idx <= Len(chain(pipeline(direction, field.cls)))
    /\ LET p == chain(pipeline(direction, field.cls))[idx]
           r == Pipe_run(p, field, session)
       IN  /\ log' = Append(log, p)
           /\ last' = [pipe |-> p, invoked |-> r.invoked,
                       data_before |-> session.data,
                       output_before |-> session.output,
                       ret |-> r.ret, func_data |-> r.data,
                       exc |-> r.exc, err |-> r.err]
           /\ session' = [data |-> store(r), output |-> r.output]
           \* session.output and mapper_session.output are one object
           /\ mapper_session' = [mapper_session EXCEPT !.output = r.output]
           /\ IF r.exc = "none"
              THEN /\ idx' = idx + 1
                   /\ UNCHANGED <<pc, outcome>>
              ELSE /\ pc' = "done"
                   /\ idx' = idx
                   /\ outcome' =
                        IF run_catches(r.exc)
                        THEN [kind |-> "returned", exc |-> "none",
                              err |-> "none", value |-> r.output]
                        ELSE [kind |-> "raised", exc |-> r.exc,
                              err |-> r.err, value |-> NoTarget]
    /\ UNCHANGED <<field, given, setter_calls, entry, run_vars, decl_vars>>

\* The end of the loop of Pipeline.run: `return session.output`.
return ==
    /\ pc = "running"
    /\ idx > Len(chain(pipeline(direction, field.cls)))
    /\ pc' = "done"
    /\ outcome' = [kind |-> "returned", exc |-> "none", err |-> "none",
                   value |-> session.output]
    /\ UNCHANGED <<field, given, setter_calls, mapper_session, session, idx,
                   log, last, entry, run_vars, decl_vars>>

----------------------------------------------------------------------------
(* The inputs                                                              *)

\* The values a field's input may hold.
ElemValues ==
    {None, IntVal("2"), StrVal("2"), BadObj, StrVal("2015-01-01T00:00:00Z")}

\* The data of the mapper session for a field that is not wrapped: no data
\* at all, or a mapping with or without the key "a".
MappingDatas ==
    {None, DictVal(EmptyMap)} \cup {DictVal("a" :> v) : v \in ElemValues}

\* The data a container hands to the field it wraps: one element.
WrappedDatas == ElemValues \cup {DictVal(EmptyMap)}

Choices == ListVal({StrVal("2"), StrVal("x")})

\* The keyword arguments of the fields that are marshaled.
MarshalKw ==
    [name : {NoneName, "a"}, attribute_name : {NoneName},
     source : {NoneName}, is_wrapped : BOOLEAN, required : BOOLEAN,
     default : {None, StrVal("2")}, allow_none : BOOLEAN,
     read_only : BOOLEAN, choices : {None, Choices}]

FieldClasses == {"Field", "String", "DateTime", "Date", "Static"}

\* The output targets: an object (attribute-style set), a mapping (key-style
\* set), an object taking both, and one taking neither; each empty or
\* already holding a value under "a".
Targets ==
    {Target(a, k, EmptyMap, EmptyMap) : a \in BOOLEAN, k \in BOOLEAN}
    \cup {Target(TRUE, k, "a" :> StrVal("old"), EmptyMap) : k \in BOOLEAN}
    \cup {Target(FALSE, TRUE, EmptyMap, "a" :> StrVal("old"))}

\* The names, attribute names and sources a field is constructed with.
Names == {NoneName, "", "a", "b"}

\* No run has been started.
NoRun == direction = "none" /\ runs = 0 /\ first_data = None

\* Nothing has been declared besides the field.
NoDecl ==
    /\ supplied = {}
    /\ collection = NoCollection
    /\ registry = {}
    /\ nested = NoNested
    /\ msgs = NoMsgs
    /\ legacy = NoLegacy
    /\ collections = <<>>

DefaultKw ==
    [name |-> NoneName, attribute_name |-> NoneName, source |-> NoneName,
     is_wrapped |-> FALSE, required |-> TRUE, default |-> None,
     allow_none |-> TRUE, read_only |-> FALSE, choices |-> None]

----------------------------------------------------------------------------
(* Marshaling one field: a field has been constructed and a mapper session *)
(* made; Field.marshal runs the field's marshal pipeline.                  *)

Init ==
    /\ \E cls \in FieldClasses, kw \in MarshalKw :
         /\ field = Field(cls, kw)
         /\ given = kw
         /\ \E d \in (IF kw.is_wrapped THEN WrappedDatas ELSE MappingDatas),
               o \in Targets :
              mapper_session = [data |-> d, output |-> o]
    /\ setter_calls = 0
    /\ session = [data |-> None, output |-> NoTarget]
    /\ pc = "idle"
    /\ idx = 0
    /\ log = <<>>
    /\ last = NoCall
    /\ outcome = NoOutcome
    /\ entry = NoTarget
    /\ NoRun
    /\ NoDecl

Next == marshal \/ call_pipe \/ return

Spec == Init /\ [][Next]_vars

----------------------------------------------------------------------------
(* Naming a field: a field has been constructed with some of name,         *)
(* attribute_name and source; its name setter is called.                   *)

InitOpts ==
    /\ \E n \in Names, an \in Names, src \in Names :
         LET kw == [DefaultKw EXCEPT !.name = n, !.attribute_name = an,
                                     !.source = src]
         IN  /\ field = Field("Field", kw)
             /\ given = kw
    /\ setter_calls = 0
    /\ mapper_session = [data |-> None, output |-> NoTarget]
    /\ session = [data |-> None, output |-> NoTarget]
    /\ pc = "new"
    /\ idx = 0
    /\ log = <<>>
    /\ last = NoCall
    /\ outcome = NoOutcome
    /\ entry = NoTarget
    /\ NoRun
    /\ NoDecl

\* Field.name = name: the name setter, called by the code that declares or
\* owns the field.
set_field_name ==
    /\ pc = "new"
    /\ setter_calls < MaxSetterCalls
    /\ \E n \in Names :
         /\ field' = name_setter(field, n)
         /\ supplied' = supplied \cup {n}
    /\ setter_calls' = setter_calls + 1
    /\ UNCHANGED <<given, mapper_session, session, pc, idx, log, last,
                   outcome, entry, run_vars, collection, registry, nested,
                   msgs,
                   legacy, collections>>

NextOpts == set_field_name

SpecOpts == InitOpts /\ [][NextOpts]_vars

\* field.opts.set_name(name, attribute_name, source), called by the code
\* that declares or owns the field.
call_set_name ==
    /\ pc = "new"
    /\ \E n \in Names, an \in Names, src \in Names :
         field' = [field EXCEPT !.opts = set_name(field.opts, n, an, src)]
    /\ UNCHANGED <<given, setter_calls, mapper_session, session, pc, idx,
                   log, last, outcome, entry, run_vars, decl_vars>>

\* The same field, named through its setter and through set_name.
NextNames == set_field_name \/ call_set_name

SpecNames == InitOpts /\ [][NextNames]_vars

----------------------------------------------------------------------------
(* Wrapping a field in a Collection: a field has been constructed and may  *)
(* be named; Collection(...) is called with it, or with something that is  *)
(* not a Field instance, as its first argument.                            *)

\* The kinds of first argument: a Field instance, None, an integer, a Field
\* class.
ArgKinds == {"Field", "None", "int", "class"}

CollectionKw ==
    {[DefaultKw EXCEPT !.name = n, !.required = r] :
        n \in {NoneName, "c"}, r \in BOOLEAN}

\* Collection(arg, **kw)
construct_collection ==
    /\ pc = "new"
    /\ ~collection.made
    /\ \E k \in ArgKinds, kw \in CollectionKw :
         LET c == Collection([kind |-> k, field |-> field], kw)
         IN  /\ collection' = [made |-> TRUE, arg |-> k, given |-> kw,
                               exc |-> c.exc, msg |-> c.msg,
                               opts |-> c.opts]
             /\ field' = c.field
    /\ UNCHANGED <<given, setter_calls, mapper_session, session, pc, idx,
                   log, last, outcome, entry, run_vars, supplied, registry,
                   nested, msgs,
                   legacy, collections>>

\* The name setter of the field, before it is wrapped.
name_before_wrapping == ~collection.made /\ set_field_name

NextCollection == name_before_wrapping \/ construct_collection

SpecCollection == InitOpts /\ [][NextCollection]_vars

\* How many Collections are constructed around the field.
MaxCollections == 2

\* Collection(field, **kw), once more around the same field; each entry
\* keeps whether a named Collection was around the field already.
wrap ==
    /\ pc = "new"
    /\ Len(collections) < MaxCollections
    /\ \E kw \in CollectionKw :
         LET c == Collection([kind |-> "Field", field |-> field], kw)
         IN  /\ collections' =
                  Append(collections,
                         [given |-> kw, exc |-> c.exc, opts |-> c.opts,
                          after_named |->
                             \E i \in 1..Len(collections) :
                                /\ collections[i].exc = "none"
                                /\ Truthy(collections[i].opts.name)])
             /\ field' = c.field
    /\ UNCHANGED <<given, setter_calls, mapper_session, session, pc, idx,
                   log, last, outcome, entry, run_vars, supplied, collection,
                   registry, nested, msgs, legacy>>

\* collection.name = name: the name setter of one of the Collections.
set_collection_name ==
    /\ pc = "new"
    /\ setter_calls < MaxSetterCalls
    /\ \E i \in 1..Len(collections), n \in Names :
         /\ collections[i].exc = "none"
         /\ LET r == CollectionFieldOpts_set_name(collections[i].opts, field,
                                                  n, NoneName, NoneName)
            IN  /\ collections' = [collections EXCEPT ![i].opts = r.opts]
                /\ field' = r.field
         /\ supplied' = supplied \cup {n}
    /\ setter_calls' = setter_calls + 1
    /\ UNCHANGED <<given, mapper_session, session, pc, idx, log, last,
                   outcome, entry, run_vars, collection, registry, nested,
                   msgs, legacy>>

NextWrap == wrap \/ set_collection_name

SpecWrap == InitOpts /\ [][NextWrap]_vars

----------------------------------------------------------------------------
(* Nested fields and the mapper registry: mappers are registered as their  *)
(* classes are defined; a Nested field is constructed with a reference to  *)
(* a mapper, and get_mapper is called on it.                               *)

MapperNames == {"UserMapper", "PostMapper"}

\* The references a Nested field is constructed with: the name of a mapper
\* that is or will be defined, a name that never is, a Mapper class, a
\* class that is not a Mapper.
MapperRefs ==
    {[kind |-> "name", id |-> n] : n \in MapperNames \cup {"IDontExist"}}
    \cup {[kind |-> "mapper_class", id |-> "UserMapper"],
          [kind |-> "other_class", id |-> "Foo"]}

\* How many calls of get_mapper are followed.
MaxGetMapperCalls == 2

InitDecl ==
    /\ field = Field("Field", DefaultKw)
    /\ given = DefaultKw
    /\ setter_calls = 0
    /\ mapper_session = [data |-> None, output |-> NoTarget]
    /\ session = [data |-> None, output |-> NoTarget]
    /\ pc = "new"
    /\ idx = 0
    /\ log = <<>>
    /\ last = NoCall
    /\ outcome = NoOutcome
    /\ entry = NoTarget
    /\ NoRun
    /\ NoDecl

\* A Mapper class named n is defined: its definition registers it.
register_mapper ==
    /\ \E n \in MapperNames \ registry : registry' = registry \cup {n}
    /\ UNCHANGED <<field, given, setter_calls, mapper_session, session, pc,
                   idx, log, last, outcome, entry, run_vars, supplied,
                   collection, nested, msgs,
                   legacy, collections>>

\* Nested(ref, name='user')
construct_nested ==
    /\ ~nested.made
    /\ \E ref \in MapperRefs :
         nested' = [NoNested EXCEPT
                      !.made = TRUE,
                      !.opts = NestedFieldOpts(ref,
                                   [DefaultKw EXCEPT !.name = "user"]),
                      !.registered = registry]
    /\ UNCHANGED <<field, given, setter_calls, mapper_session, session, pc,
                   idx, log, last, outcome, entry, run_vars, supplied,
                   collection, registry, msgs,
                   legacy, collections>>

\* nested.get_mapper(as_class=...)
call_get_mapper ==
    /\ nested.made
    /\ nested.calls < MaxGetMapperCalls
    /\ \E as_class \in BOOLEAN :
         nested' = [nested EXCEPT
                      !.calls = @ + 1,
                      !.seen = registry,
                      !.result = get_mapper(nested.opts, registry, as_class)]
    /\ UNCHANGED <<field, given, setter_calls, mapper_session, session, pc,
                   idx, log, last, outcome, entry, run_vars, supplied,
                   collection, registry, msgs,
                   legacy, collections>>

NextNested == register_mapper \/ construct_nested \/ call_get_mapper

SpecNested == InitDecl /\ [][NextNested]_vars

----------------------------------------------------------------------------
(* Marshaling the fields of a mapper: one mapper session, and one          *)
(* Field.marshal after the other on it, each for a field of the mapper.    *)

\* The fields of the mapper.
MapperFields ==
    {Field(cls, [DefaultKw EXCEPT !.name = n, !.required = r,
                                  !.read_only = ro]) :
        cls \in {"Field", "String"}, n \in {"a", "b"}, r \in BOOLEAN,
        ro \in BOOLEAN}

\* The data of the mapper session: a mapping with some of the keys "a", "b".
MapperDatas ==
    {DictVal(f) :
        f \in UNION {[S -> {None, StrVal("2"), IntVal("2")}] :
                       S \in SUBSET {"a", "b"}}}

\* How many fields of the mapper are marshaled.
MaxRuns == 2

InitMapper ==
    /\ \E f \in MapperFields, d \in MapperDatas, a \in BOOLEAN,
          k \in BOOLEAN :
         /\ field = f
         /\ mapper_session = [data |-> d,
                              output |-> Target(a, k, EmptyMap, EmptyMap)]
    /\ given = DefaultKw
    /\ setter_calls = 0
    /\ session = [data |-> None, output |-> NoTarget]
    /\ pc = "idle"
    /\ idx = 0
    /\ log = <<>>
    /\ last = NoCall
    /\ outcome = NoOutcome
    /\ entry = NoTarget
    /\ NoRun
    /\ NoDecl

\* The mapper goes on to its next field, whether the run of the field
\* before returned or raised.
next_field ==
    /\ pc = "done"
    /\ runs < MaxRuns
    /\ \E f \in MapperFields : field' = f
    /\ pc' = "idle"
    /\ session' = [data |-> None, output |-> NoTarget]
    /\ idx' = 0
    /\ log' = <<>>
    /\ last' = NoCall
    /\ outcome' = NoOutcome
    /\ UNCHANGED <<given, setter_calls, mapper_session, entry, run_vars,
                   decl_vars>>

NextMapper == marshal \/ call_pipe \/ return \/ next_field

SpecMapper == InitMapper /\ [][NextMapper]_vars

\* The same, with fields marshaled and fields serialized.
NextRuns == marshal \/ serialize \/ call_pipe \/ return \/ next_field

SpecRuns == InitMapper /\ [][NextRuns]_vars

----------------------------------------------------------------------------
(* Both directions: a field has been constructed, with or without a source *)
(* of its own, and a mapper session made; Field.marshal or Field.serialize *)
(* runs the field's pipeline of that direction.                            *)

IOValues == {None, StrVal("2"), DateTimeVal("2015-01-01", "00:00:00", "+00:00")}

\* The data of the mapper session for a field that is not wrapped: no data
\* at all, or a mapping with some of the keys "a" and "s".
IODatas ==
    {None, DictVal(EmptyMap), DictVal(("a" :> StrVal("2")) @@ ("s" :> None))}
    \cup {DictVal("a" :> v) : v \in IOValues}
    \cup {DictVal("s" :> v) : v \in IOValues}

\* The data a container hands to the field it wraps: one element.
IOElems == IOValues \cup {DictVal("a" :> StrVal("2"))}

IOKw ==
    [name : {NoneName, "a"}, attribute_name : {NoneName},
     source : {NoneName, "s", "__self__"}, is_wrapped : BOOLEAN,
     required : BOOLEAN, default : {None, StrVal("2")},
     allow_none : BOOLEAN, read_only : {FALSE}, choices : {None}]

InitIO ==
    /\ \E cls \in {"Field", "String", "DateTime"}, kw \in IOKw :
         /\ field = Field(cls, kw)
         /\ given = kw
         /\ \E d \in (IF kw.is_wrapped THEN IOElems ELSE IODatas),
               o \in Targets :
              mapper_session = [data |-> d, output |-> o]
    /\ setter_calls = 0
    /\ session = [data |-> None, output |-> NoTarget]
    /\ pc = "idle"
    /\ idx = 0
    /\ log = <<>>
    /\ last = NoCall
    /\ outcome = NoOutcome
    /\ entry = NoTarget
    /\ NoRun
    /\ NoDecl

NextIO == marshal \/ serialize \/ call_pipe \/ return

SpecIO == InitIO /\ [][NextIO]_vars

----------------------------------------------------------------------------
(* The source pipes on their own: a field has been constructed and a       *)
(* mapper session made; the loop of a Pipeline.run whose lists hold        *)
(* get_data_from_source or update_output_to_source calls that pipe on the  *)
(* session.                                                                *)

SourcePipes == {"get_data_from_source", "update_output_to_source"}

SourceDatas ==
    {None, StrVal("2"), DictVal(EmptyMap), DictVal("s" :> StrVal("2")),
     DictVal(("a" :> IntVal("2")) @@ ("b" :> StrVal("y")))}

SourceKw ==
    {[DefaultKw EXCEPT !.name = n, !.source = src, !.is_wrapped = w] :
        n \in {NoneName, "a"}, src \in {NoneName, "s", "__self__"},
        w \in BOOLEAN}

InitSource ==
    /\ \E kw \in SourceKw, d \in SourceDatas, o \in Targets :
         /\ field = Field("Field", kw)
         /\ given = kw
         /\ mapper_session = [data |-> d, output |-> o]
    /\ setter_calls = 0
    /\ session = [data |-> None, output |-> NoTarget]
    /\ pc = "idle"
    /\ idx = 0
    /\ log = <<>>
    /\ last = NoCall
    /\ outcome = NoOutcome
    /\ entry = NoTarget
    /\ NoRun
    /\ NoDecl

\* `pipe(session)` for one of the source pipes, on a Session made as
\* Pipeline.run makes it.
call_source_pipe ==
    /\ pc = "idle"
    /\ \E p \in SourcePipes :
         LET s == [data |-> mapper_session.data,
                   output |-> mapper_session.output]
             r == Pipe_run(p, field, s)
         IN  /\ log' = <<p>>
             /\ last' = [pipe |-> p, invoked |-> r.invoked,
                         data_before |-> s.data,
                         output_before |-> s.output,
                         ret |-> r.ret, func_data |-> r.data,
                         exc |-> r.exc, err |-> r.err]
             /\ session' = [data |-> store(r), output |-> r.output]
             /\ mapper_session' = [mapper_session EXCEPT !.output = r.output]
             /\ outcome' =
                  IF r.exc = "none"
                  THEN [kind |-> "returned", exc |-> "none", err |-> "none",
                        value |-> r.output]
                  ELSE [kind |-> "raised", exc |-> r.exc, err |-> r.err,
                        value |-> NoTarget]
    /\ pc' = "done"
    /\ entry' = mapper_session.output
    /\ direction' = "call"
    /\ runs' = runs + 1
    /\ UNCHANGED <<field, given, setter_calls, idx, first_data, decl_vars>>

NextSource == call_source_pipe

SpecSource == InitSource /\ [][NextSource]_vars

----------------------------------------------------------------------------
(* Marshaling a Boolean field: the field has been constructed with or      *)
(* without lists of its own and with or without a choices option.          *)

BooleanValues ==
    {None, BoolVal("True"), IntVal("1"), StrVal("true"), IntVal("0"),
     StrVal("yes"), StrVal("2"), IntVal("2"), ListVal({}),
     DictVal(EmptyMap)}

BooleanDatas ==
    {DictVal(EmptyMap)} \cup {DictVal("a" :> v) : v \in BooleanValues}

\* The keyword arguments of the Boolean fields: the lists are the defaults,
\* or "yes" and "no".
BooleanKw ==
    {[DefaultKw EXCEPT !.name = "a", !.required = r, !.choices = c] :
        r \in BOOLEAN, c \in {None, Choices}}
    \cup {[true_boolean_values |-> {StrVal("yes")},
           false_boolean_values |-> {StrVal("no")}]
          @@ [DefaultKw EXCEPT !.name = "a", !.required = r, !.choices = c] :
            r \in BOOLEAN, c \in {None, Choices}}

InitBoolean ==
    /\ \E kw \in BooleanKw, d \in BooleanDatas, a \in BOOLEAN :
         /\ field = Field("Boolean", kw)
         /\ given = kw
         /\ mapper_session =
              [data |-> d, output |-> Target(a, ~a, EmptyMap, EmptyMap)]
    /\ setter_calls = 0
    /\ session = [data |-> None, output |-> NoTarget]
    /\ pc = "idle"
    /\ idx = 0
    /\ log = <<>>
    /\ last = NoCall
    /\ outcome = NoOutcome
    /\ entry = NoTarget
    /\ NoRun
    /\ NoDecl

NextBoolean == marshal \/ call_pipe \/ return

SpecBoolean == InitBoolean /\ [][NextBoolean]_vars

----------------------------------------------------------------------------
(* A round trip: a DateTime field is marshaled from a mapping into an      *)
(* empty output; what was marshaled is then the data of a new mapper       *)
(* session, from which the field is serialized into a new empty output.    *)

RoundTripValues ==
    {None, StrVal("2015-01-01T00:00:00Z"),
     StrVal("2015-01-01T00:00:00+00:00"),
     StrVal("2015-06-30T12:30:00+01:00"), StrVal("2"), IntVal("2"),
     StrVal("2015-13-45T00:00:00Z")}

RoundTripKw ==
    {[DefaultKw EXCEPT !.name = "a", !.required = r, !.allow_none = n] :
        r \in BOOLEAN, n \in BOOLEAN}

InitRoundTrip ==
    /\ \E kw \in RoundTripKw, v \in RoundTripValues, a \in BOOLEAN :
         /\ field = Field("DateTime", kw)
         /\ given = kw
         /\ mapper_session =
              [data |-> DictVal("a" :> v),
               output |-> Target(a, ~a, EmptyMap, EmptyMap)]
    /\ setter_calls = 0
    /\ session = [data |-> None, output |-> NoTarget]
    /\ pc = "idle"
    /\ idx = 0
    /\ log = <<>>
    /\ last = NoCall
    /\ outcome = NoOutcome
    /\ entry = NoTarget
    /\ NoRun
    /\ NoDecl

\* Field.marshal on the first mapper session.
marshal_first == runs = 0 /\ marshal

\* The marshaled output becomes the data of a new mapper session with an
\* empty output.
turn_around ==
    /\ pc = "done"
    /\ direction = "marshal"
    /\ outcome.kind = "returned"
    /\ first_data' = mapper_session.data
    /\ \E a \in BOOLEAN :
         mapper_session' =
            [data |-> DictVal(IF mapper_session.output.attr
                              THEN mapper_session.output.attrs
                              ELSE mapper_session.output.items),
             output |-> Target(a, ~a, EmptyMap, EmptyMap)]
    /\ pc' = "idle"
    /\ session' = [data |-> None, output |-> NoTarget]
    /\ idx' = 0
    /\ log' = <<>>
    /\ last' = NoCall
    /\ outcome' = NoOutcome
    /\ UNCHANGED <<field, given, setter_calls, entry, direction, runs,
                   decl_vars>>

\* Field.serialize on the second mapper session.
serialize_back == runs = 1 /\ direction = "marshal" /\ serialize

NextRoundTrip ==
    marshal_first \/ turn_around \/ serialize_back \/ call_pipe \/ return

SpecRoundTrip == InitRoundTrip /\ [][NextRoundTrip]_vars

----------------------------------------------------------------------------
(* Legacy serializers: Field wrappers are made, with or without a source,  *)
(* and Serializer classes declared with them, one after the other.         *)

Wrappers == {"w1", "w2"}

LegacyAttrs == {"name", "age"}

\* The bodies of the classes: some of the attributes, each a wrapper or a
\* value that is not a Field.
ClassBodies ==
    UNION {[S -> Wrappers \cup {"other"}] : S \in SUBSET LegacyAttrs}

\* The orders in which a dict may give the keys S.
Orders(S) ==
    {q \in [1..Cardinality(S) -> S] :
        \A i, j \in 1..Cardinality(S) : q[i] = q[j] => i = j}

\* How many Serializer classes are declared.
MaxClasses == 2

InitLegacy ==
    /\ \E ps \in [Wrappers -> {EmptyMap, [source |-> "user_age"]}] :
         legacy = [listed |-> ps, params |-> ps, classes |-> <<>>]
    /\ field = Field("Field", DefaultKw)
    /\ given = DefaultKw
    /\ setter_calls = 0
    /\ mapper_session = [data |-> None, output |-> NoTarget]
    /\ session = [data |-> None, output |-> NoTarget]
    /\ pc = "new"
    /\ idx = 0
    /\ log = <<>>
    /\ last = NoCall
    /\ outcome = NoOutcome
    /\ entry = NoTarget
    /\ NoRun
    /\ supplied = {}
    /\ collection = NoCollection
    /\ registry = {}
    /\ nested = NoNested
    /\ msgs = NoMsgs
    /\ collections = <<>>

\* class X(base): <attrs>, with base Serializer (0) or a class declared
\* before: SerializerMetaclass.__new__.
declare_serializer ==
    /\ Len(legacy.classes) < MaxClasses
    /\ \E attrs \in ClassBodies, b \in 0..Len(legacy.classes) :
         LET base_fields == IF b = 0 THEN EmptyMap
                            ELSE legacy.classes[b].declared_fields
             declared == declared_fields(attrs, base_fields)
         IN  \E order \in Orders(DOMAIN declared) :
                LET r == build_mapping(order, declared, legacy.params,
                                       EmptyMap)
                IN  legacy' =
                       [legacy EXCEPT
                          !.params = r.params,
                          !.classes =
                             Append(@, [attrs |-> attrs, base |-> b,
                                        declared_fields |-> declared,
                                        mapping |-> r.mapping])]
    /\ UNCHANGED <<field, given, setter_calls, mapper_session, session, pc,
                   idx, log, last, outcome, entry, run_vars, supplied,
                   collection, registry, nested, msgs, collections>>

NextLegacy == declare_serializer

SpecLegacy == InitLegacy /\ [][NextLegacy]_vars

----------------------------------------------------------------------------
(* Error messages: fields of options classes with their own                *)
(* extra_error_msgs are constructed, with or without an error_msgs option. *)

\* The extra_error_msgs of the options classes: that of FieldOpts, which is
\* empty, and those of subclasses that replace a default message, add a
\* kind of their own, or both.
ExtraErrorMsgs ==
    {EmptyMap,
     [required |-> "class: required"],
     [too_long |-> "class: too long"],
     [required |-> "class: required", too_long |-> "class: too long"]}

\* The error_msgs option: not passed, or a mapping.
ErrorMsgsOptions ==
    {[passed |-> FALSE, value |-> EmptyMap]}
    \cup {[passed |-> TRUE, value |-> v] :
            v \in {EmptyMap,
                   [type_error |-> "instance: type"],
                   [required |-> "instance: required"],
                   [required |-> "instance: required",
                    type_error |-> "instance: type"]}}

\* How many field constructions are followed.
MaxFields == 2

\* A field is constructed: FieldOpts.__init__ of an options class whose
\* extra_error_msgs is extra, with the error_msgs option opt.
construct_field ==
    /\ Len(msgs.fields) < MaxFields
    /\ \E extra \in ExtraErrorMsgs, opt \in ErrorMsgsOptions :
         LET r == FieldOpts_error_msgs(msgs.defaults, extra, opt)
         IN  msgs' = [defaults |-> r.DEFAULT_ERROR_MSGS,
                      fields |->
                         Append(msgs.fields,
                                [extra_error_msgs |-> extra,
                                 option |-> opt,
                                 error_msgs |-> r.error_msgs])]
    /\ UNCHANGED <<field, given, setter_calls, mapper_session, session, pc,
                   idx, log, last, outcome, entry, run_vars, supplied,
                   collection, registry, nested,
                   legacy, collections>>

NextMsgs == construct_field

SpecMsgs == InitDecl /\ [][NextMsgs]_vars

----------------------------------------------------------------------------
(* Properties of Pipeline.run                                              *)

\* What get_data_from_name reads for the field from the mapper session's
\* data: the value under the field's name, None when there is none.
Extracted == attr_or_key(mapper_session.data, get_name(field.opts))

\* What the output target holds under the field's name; None when nothing.
Written(o) ==
    IF o.attr THEN attr_or_key(DictVal(o.attrs), get_name(field.opts))
    ELSE attr_or_key(DictVal(o.items), get_name(field.opts))

\* The four pipe lists of the field's pipeline, in the order of the claim.
Declared ==
    LET pl == pipeline(direction, field.cls)
    IN  pl.input_pipes \o pl.validation_pipes \o pl.process_pipes
            \o pl.output_pipes

\* C1: the pipes a run has called are, in call order, an initial part of
\* input_pipes, validation_pipes, process_pipes, output_pipes in their
\* declared order; the run has called exactly the pipes before its position
\* and has called no pipe twice.
C1_PipesRunInDeclaredOrder ==
    /\ Len(log) <= Len(Declared)
    /\ \A i \in 1..Len(log) : log[i] = Declared[i]
    /\ \A i, j \in 1..Len(log) : log[i] = log[j] => i = j
    /\ pc = "running" => Len(log) = idx - 1
    /\ pc = "done" => Len(log) \in {idx - 1, idx}

\* A Date field's run that called all six pipes of its pipeline.
C1_Witness ==
    /\ pc = "done"
    /\ outcome.kind = "returned"
    /\ log = <<"get_data_from_name", "is_valid_datetime", "is_valid_choice",
               "cast_to_date", "read_only", "update_output_to_name">>

\* C2: when a pipe raises StopPipelineExecution the run is over and has
\* returned session.output (nothing was raised to the caller), the pipe
\* that stopped is the last one called, and the output is what it was when
\* that pipe was called.
C2_StopEndsRunNormally ==
    last.exc = "StopPipelineExecution" =>
        /\ pc = "done"
        /\ outcome.kind = "returned"
        /\ outcome.exc = "none"
        /\ outcome.value = session.output
        /\ Len(log) = idx /\ log[idx] = last.pipe
        /\ session.output = last.output_before
        /\ mapper_session.output = last.output_before

\* A read-only Date field stopped after cast_to_date, the output still
\* holding the value it had.
C2_Witness ==
    /\ last.exc = "StopPipelineExecution"
    /\ log = <<"get_data_from_name", "is_valid_datetime", "is_valid_choice",
               "cast_to_date", "read_only">>
    /\ mapper_session.output.items = ("a" :> StrVal("old"))

\* C3: when a pipe raises FieldInvalid the run is over, the caller gets
\* that FieldInvalid with its error kind, the raising pipe is the last one
\* called, and the shared output is what it was when the run started.
C3_InvalidLeavesOutputUntouched ==
    last.exc = "FieldInvalid" =>
        /\ pc = "done"
        /\ outcome.kind = "raised"
        /\ outcome.exc = "FieldInvalid"
        /\ outcome.err = last.err
        /\ Len(log) = idx /\ log[idx] = last.pipe
        /\ mapper_session.output = entry
        /\ session.output = entry

\* The choice check of a String field raised invalid_choice; the output
\* held a value before the run.
C3_Witness ==
    /\ pc = "done"
    /\ outcome.exc = "FieldInvalid"
    /\ outcome.err = "invalid_choice"
    /\ field.cls = "String"
    /\ entry.attrs = ("a" :> StrVal("old"))
    /\ mapper_session.output = entry

\* C4: marshaling a read-only field leaves the output as it was when the
\* run started.
C4_ReadOnlyNeverWrites ==
    (field.opts.read_only /\ pc \in {"running", "done"}) =>
        mapper_session.output = entry

NonAssigning ==
    {"read_only", "is_valid_choice", "is_valid_string",
     "update_output_to_name"}

\* C6: a pipe called with a non-null session.data runs its function; one
\* called with a null session.data and run_if_none false does not, leaves
\* data and output as they were and returns the data; one with run_if_none
\* true runs its function whatever the data.  What the call returns is not
\* stored: session.data is afterwards what the function left there.
C6_PipeNullPolicy ==
    last.pipe # "none" =>
        /\ last.data_before # None => last.invoked
        /\ run_if_none(last.pipe) => last.invoked
        /\ (last.data_before = None /\ ~run_if_none(last.pipe)) =>
              /\ ~last.invoked
              /\ last.exc = "none"
              /\ last.ret = None
              /\ session.data = None
              /\ session.output = last.output_before
        /\ session.data = last.func_data
        /\ last.pipe \in NonAssigning => session.data = last.data_before

\* The output pipe ran on a null value that the pipes before it had
\* skipped, and wrote it.
C6_Witness ==
    /\ log = <<"get_data_from_name", "is_valid_string", "is_valid_choice",
               "read_only", "update_output_to_name">>
    /\ last.data_before = None
    /\ last.invoked
    /\ mapper_session.data = None
    /\ "a" \in DOMAIN session.output.items
    /\ session.output.items["a"] = None

C8_StringStoresText ==
    field.cls = "String" =>
        /\ (last.pipe = "is_valid_string" /\ last.invoked
                /\ last.exc = "none") =>
              session.data = last.ret
        /\ (last.pipe = "update_output_to_name" /\ last.exc = "none"
                /\ last.data_before # None) =>
              Written(session.output)[1] = "str"

\* C9: the output pipe runs whatever the value, null included.  For a named
\* field it stores the value under the field's name as an attribute when
\* the target takes attributes, else as an item when the target takes
\* items, and changes nothing else; when the target takes neither, the run
\* ends with a FieldError and the target is as it was.
C9_OutputWrite ==
    last.pipe = "update_output_to_name" =>
        /\ last.invoked
        /\ session.output = mapper_session.output
        /\ name_resolves(field) =>
              IF last.output_before.attr
              THEN /\ last.exc = "none"
                   /\ session.output =
                        [last.output_before EXCEPT !.attrs =
                            (get_name(field.opts) :> last.data_before)
                                @@ last.output_before.attrs]
              ELSE IF last.output_before.key
              THEN /\ last.exc = "none"
                   /\ session.output =
                        [last.output_before EXCEPT !.items =
                            (get_name(field.opts) :> last.data_before)
                                @@ last.output_before.items]
              ELSE /\ outcome.kind = "raised"
                   /\ outcome.exc = "FieldError"
                   /\ session.output = last.output_before
        /\ ~name_resolves(field) =>
              /\ outcome.kind = "raised"
              /\ outcome.exc = "FieldError"
              /\ session.output = last.output_before

\* A null value was written as an item of a mapping that held another
\* value under the name.
C9_Witness ==
    /\ last.pipe = "update_output_to_name"
    /\ last.data_before = None
    /\ ~last.output_before.attr
    /\ last.output_before.items = ("a" :> StrVal("old"))
    /\ session.output.items = ("a" :> None)
    /\ mapper_session.output.items = ("a" :> None)

----------------------------------------------------------------------------
(* Properties of FieldOpts                                                 *)

\* C10: right after construction, name is the name given, else the
\* attribute_name given; source is the source given, else the resolved
\* name; attribute_name is the one given; with no name and no
\* attribute_name given the name is unset whatever the source.  (An
\* argument is given when it is neither None nor the empty string.)
C10_NameResolution ==
    setter_calls = 0 =>
        /\ field.opts.name =
              (IF Truthy(given.name) THEN given.name
               ELSE given.attribute_name)
        /\ field.opts.source =
              (IF Truthy(given.source) THEN given.source
               ELSE field.opts.name)
        /\ field.opts.attribute_name = given.attribute_name
        /\ (~Truthy(given.name) /\ ~Truthy(given.attribute_name)) =>
              ~name_resolves(field)

\* A field constructed with a source only: the source is kept and the name
\* is unset.
C10_Witness ==
    /\ pc = "new"
    /\ setter_calls = 0
    /\ given.name = NoneName
    /\ given.attribute_name = NoneName
    /\ given.source = "b"
    /\ field.opts.source = "b"
    /\ field.opts.name = NoneName

\* C11: after construction and any number of calls of the name setter,
\* reading Field.name either returns a name that is neither None nor empty
\* or raises FieldError, and it raises exactly when no name and no
\* attribute_name was ever supplied, to the constructor or to the setter.
C11_NameOrFieldError ==
    LET r == name_getter(field)
        ever == \/ Truthy(given.name)
                \/ Truthy(given.attribute_name)
                \/ \E n \in supplied : Truthy(n)
    IN  /\ r.exc \in {"none", "FieldError"}
        /\ r.exc = "none" => r.value \notin {NoneName, ""}
        /\ r.exc = "FieldError" <=> ~ever

\* A field constructed with an empty attribute_name and no name, whose
\* setter was given the empty name and then "b": the getter returns "b".
C11_Witness ==
    /\ pc = "new"
    /\ given.name = NoneName
    /\ given.attribute_name = ""
    /\ supplied = {"", "b"}
    /\ name_getter(field) = [exc |-> "none", value |-> "b"]

----------------------------------------------------------------------------
(* Properties of Collection                                                *)

\* The inner field declared a name, an attribute_name or a source of its
\* own before it was wrapped.
InnerDeclares ==
    \/ Truthy(given.name)
    \/ Truthy(given.attribute_name)
    \/ Truthy(given.source)
    \/ \E n \in supplied : Truthy(n)

\* C12: constructing a Collection around a Field instance raises FieldError
\* when the inner field declared its own name, attribute_name or source;
\* it succeeds only for an inner field that declared none of them, and
\* then the inner field is marked as wrapped.
C12_WrappedFieldDeclaresNoNames ==
    (collection.made /\ collection.arg = "Field") =>
        /\ InnerDeclares => collection.exc = "FieldError"
        /\ collection.exc = "none" => ~InnerDeclares
        /\ collection.exc = "none" => field.opts.is_wrapped

\* C13: constructing a Collection whose first argument is not a Field
\* instance always fails with a FieldError reporting invalid options, and
\* with no other failure.
C13_NonFieldIsInvalidOptions ==
    (collection.made /\ collection.arg # "Field") =>
        /\ collection.exc = "FieldError"
        /\ collection.msg = "invalid options"

----------------------------------------------------------------------------
(* Properties of Nested                                                    *)

\* C14: constructing a Nested field succeeds whether or not the mapper it
\* names is registered; each get_mapper call resolves the reference against
\* the registry as it is at the call: FieldError when the name is not
\* registered then or the reference is not a mapper, the mapper otherwise,
\* also when it was registered only after the field was constructed.
C14_MapperResolvedAtCall ==
    /\ nested.made => nested.exc = "none"
    /\ nested.calls > 0 =>
         LET ref == nested.opts.mapper
             found == \/ ref.kind = "name" /\ ref.id \in nested.seen
                      \/ ref.kind = "mapper_class"
         IN  /\ found => /\ nested.result.exc = "none"
                         /\ nested.result.mapper = ref.id
             /\ ~found => nested.result.exc = "FieldError"

\* A Nested field constructed on the name of a mapper that was registered
\* only afterwards: the first get_mapper call raised FieldError or was made
\* later, and the last one gave the mapper.
C14_Witness ==
    /\ nested.made
    /\ nested.opts.mapper = [kind |-> "name", id |-> "UserMapper"]
    /\ "UserMapper" \notin nested.registered
    /\ nested.calls = 2
    /\ nested.result =
         [exc |-> "none", kind |-> "instance", mapper |-> "UserMapper"]

----------------------------------------------------------------------------
(* Properties of Static                                                    *)

\* C15: a Static field is read-only whatever read_only option it was
\* constructed with, and marshaling it leaves the output as it was when the
\* run started, for every input.
C15_StaticNeverMarshals ==
    field.cls = "Static" =>
        /\ field.opts.read_only
        /\ pc \in {"running", "done"} => mapper_session.output = entry

----------------------------------------------------------------------------
(* Properties of the error messages                                        *)

\* C16: the message a field has for an error kind is the one of its
\* error_msgs option if the option has the kind, else the one of its
\* class's extra_error_msgs if that has the kind, else the default one.
C16_ErrorMsgsLayered ==
    \A i \in 1..Len(msgs.fields) :
        LET m == msgs.fields[i]
            layered(k) ==
                IF m.option.passed /\ k \in DOMAIN m.option.value
                THEN m.option.value[k]
                ELSE IF k \in DOMAIN m.extra_error_msgs
                THEN m.extra_error_msgs[k]
                ELSE msgs.defaults[k]
        IN  \A k \in DOMAIN msgs.defaults \cup DOMAIN m.extra_error_msgs :
                get_error(m.error_msgs, k) =
                    [exc |-> "none", msg |-> layered(k)]

----------------------------------------------------------------------------
(* Properties of the marshaling of a mapper's fields                       *)

\* The map now has the entries of the map before, except under name.
SameButFor(now, before, name) ==
    /\ DOMAIN now \subseteq DOMAIN before \cup {name}
    /\ \A k \in DOMAIN before \ {name} :
          k \in DOMAIN now /\ now[k] = before[k]

\* C17: in every run of a sequence of Field.marshal calls on one mapper
\* session, the session of the run writes into the output of the mapper
\* session, which stays the same kind of object; what the output held when
\* the run started under other names than the field's own it still holds,
\* and nothing is added under another name; a run that reaches the output
\* pipe sets the entry of the field's name.
C17_SharedOutputOwnEntryOnly ==
    pc \in {"running", "done"} =>
        /\ session.output = mapper_session.output
        /\ mapper_session.output.attr = entry.attr
        /\ mapper_session.output.key = entry.key
        /\ SameButFor(mapper_session.output.attrs, entry.attrs,
                      get_name(field.opts))
        /\ SameButFor(mapper_session.output.items, entry.items,
                      get_name(field.opts))
        /\ (last.pipe = "update_output_to_name" /\ last.exc = "none") =>
              Written(mapper_session.output) = last.data_before

\* The second field, "b", has been marshaled into a mapping that held the
\* entry of the first field, "a": the mapping holds both.
C17_Witness ==
    /\ runs = 2
    /\ pc = "done"
    /\ outcome.kind = "returned"
    /\ get_name(field.opts) = "b"
    /\ entry = Target(FALSE, TRUE, EmptyMap, "a" :> StrVal("2"))
    /\ mapper_session.output.items = ("b" :> IntVal("2")) @@ entry.items

----------------------------------------------------------------------------
(* Properties of Field.serialize and of wrapped fields                     *)

\* What get_data_from_source reads for the field from the mapper session's
\* data: the data itself for a wrapped field and for the source '__self__',
\* else the value under the field's source, None when there is none.
Sourced ==
    IF field.opts.is_wrapped \/ field.opts.source = "__self__"
    THEN mapper_session.data
    ELSE attr_or_key(mapper_session.data, field.opts.source)

\* The attributes of an output object, the items of an output mapping.
Entries(o) == IF o.attr THEN o.attrs ELSE o.items

\* C18: when the source value of a serialized field is null or absent, then
\* whatever required, default and allow_none are, the value of the session
\* is null from the input pipe on (no default replaces it), no FieldInvalid
\* (required, none_not_allowed or other) is raised, and the run ends with
\* null written under the field's name; only a field without a name or an
\* output that takes neither attributes nor keys makes it end in a
\* FieldError.
C18_SerializeHasNoGate ==
    (direction = "serialize" /\ Sourced = None) =>
        /\ Len(log) >= 1 => session.data = None
        /\ outcome.exc # "FieldInvalid"
        /\ outcome.err \notin {"required", "none_not_allowed"}
        /\ pc = "done" =>
              IF name_resolves(field) /\ (entry.attr \/ entry.key)
              THEN /\ outcome.kind = "returned"
                   /\ get_name(field.opts)
                         \in DOMAIN Entries(mapper_session.output)
                   /\ Entries(mapper_session.output)[get_name(field.opts)]
                         = None
              ELSE outcome.exc = "FieldError"

\* A required field with a default that does not allow None, serialized
\* from a mapping without its source into a mapping that held an old value
\* under its name: None is written.
C18_Witness ==
    /\ direction = "serialize"
    /\ pc = "done"
    /\ field.opts.required
    /\ ~field.opts.allow_none
    /\ field.opts.default = StrVal("2")
    /\ field.opts.source = "s"
    /\ mapper_session.data = DictVal("a" :> StrVal("2"))
    /\ entry.items = ("a" :> StrVal("old"))
    /\ outcome.kind = "returned"
    /\ mapper_session.output.items = ("a" :> None)

\* C20: for a wrapped field, the input pipe of either direction raises
\* nothing and leaves the value of the session the element that the
\* container supplied, whatever is found under the field's name or source.
C20_WrappedFieldKeepsElement ==
    (/\ field.opts.is_wrapped
     /\ last.pipe \in {"get_data_from_name", "get_data_from_source"}) =>
        /\ last.exc = "none"
        /\ session.data = last.data_before
        /\ session.data = mapper_session.data

\* A wrapped field that is required, has no default and does not allow
\* None, named "a": its serialize input pipe was called on an element that
\* is a mapping with the key "a", and the element is still the value.
C20_Witness ==
    /\ field.opts.is_wrapped
    /\ field.opts.required
    /\ field.opts.default = None
    /\ ~field.opts.allow_none
    /\ field.opts.source = "a"
    /\ direction = "serialize"
    /\ last.pipe = "get_data_from_source"
    /\ last.invoked
    /\ mapper_session.data = DictVal("a" :> StrVal("2"))
    /\ session.data = DictVal("a" :> StrVal("2"))

\* C19: for a field whose source is '__self__', get_data_from_source
\* raises nothing and passes on the whole data of the session, unchanged;
\* update_output_to_source stores nothing under '__self__', and when the
\* value is a mapping and the output takes attributes or keys, the output
\* afterwards holds the entries of the value on top of those it held.
C19_SelfSource ==
    field.opts.source = "__self__" =>
        /\ last.pipe = "get_data_from_source" =>
              /\ last.exc = "none"
              /\ session.data = last.data_before
              /\ last.ret = last.data_before
        /\ last.pipe = "update_output_to_source" =>
              /\ "__self__" \notin DOMAIN session.output.attrs
              /\ "__self__" \notin DOMAIN session.output.items
              /\ (/\ last.data_before[1] = "dict"
                  /\ last.output_before.attr \/ last.output_before.key) =>
                    /\ last.exc = "none"
                    /\ Entries(session.output) =
                          last.data_before[2] @@ Entries(last.output_before)
                    /\ mapper_session.output = session.output

\* update_output_to_source was called for a '__self__' field with a value
\* that is a mapping with "a" and "b", on an output mapping that held an
\* old "a": the output holds the value's "a" and "b".
C19_Witness ==
    /\ field.opts.source = "__self__"
    /\ last.pipe = "update_output_to_source"
    /\ last.data_before =
          DictVal(("a" :> IntVal("2")) @@ ("b" :> StrVal("y")))
    /\ last.output_before.items = ("a" :> StrVal("old"))
    /\ mapper_session.output.items =
          ("a" :> IntVal("2")) @@ ("b" :> StrVal("y"))

----------------------------------------------------------------------------
(* Properties of Boolean                                                   *)

\* C21: the choices of a Boolean field are the union of its
\* true_boolean_values and false_boolean_values, whatever choices option was
\* passed, and marshaling a value that is not in the union ends with
\* invalid_choice.
C21_BooleanChoices ==
    field.cls = "Boolean" =>
        /\ field.opts.choices =
              SetVal(field.opts.true_boolean_values
                        \cup field.opts.false_boolean_values)
        /\ (pc = "done" /\ ~contains(field.opts.choices, Extracted)) =>
              /\ outcome.exc = "FieldInvalid"
              /\ outcome.err = "invalid_choice"

----------------------------------------------------------------------------
(* Properties of the DateTime round trip                                   *)

\* The instant an ISO-8601 text denotes, as a date and time in UTC; None
\* for a text that denotes none.
instant(v) ==
    CASE v \in {StrVal("2015-01-01T00:00:00Z"),
                StrVal("2015-01-01T00:00:00+00:00")} ->
             StrVal("2015-01-01 00:00:00 UTC")
      [] v = StrVal("2015-06-30T12:30:00+01:00") ->
             StrVal("2015-06-30 11:30:00 UTC")
      [] OTHER -> None

----------------------------------------------------------------------------
(* Properties of the legacy Serializer                                     *)

\* C23: the mapping of every Serializer class has one field for each of its
\* declared fields, under the attribute's name; the field's source is the
\* one its wrapper was made with, and the attribute's name when the wrapper
\* was made without a source.
C23_SourceDefaultsToName ==
    \A i \in 1..Len(legacy.classes) :
        LET c == legacy.classes[i]
        IN  /\ DOMAIN c.mapping = DOMAIN c.declared_fields
            /\ \A n \in DOMAIN c.declared_fields :
                  LET listed == legacy.listed[c.declared_fields[n]]
                  IN  /\ c.mapping[n].name = n
                      /\ c.mapping[n].source =
                            (IF "source" \in DOMAIN listed
                             THEN listed["source"] ELSE n)

----------------------------------------------------------------------------
(* Properties of the runs of one mapper session                            *)

\* C24: no step of any run changes the data of the mapper session, and each
\* run starts with a session whose data and output are the mapper
\* session's, whatever the runs before made of their own session's data.
C24_MapperDataIsNeverModified ==
    [][/\ mapper_session'.data = mapper_session.data
       /\ (pc = "idle" /\ pc' = "running") =>
             /\ session'.data = mapper_session.data
             /\ session'.output = mapper_session.output]_vars

\* The second run has started from the mapper session's data, after the
\* first one had put the value it made of that data into the output.
C24_Witness ==
    /\ runs = 2
    /\ pc = "running"
    /\ log = <<>>
    /\ Entries(mapper_session.output) # EmptyMap
    /\ session.data = mapper_session.data
    /\ session.data \in MapperDatas

----------------------------------------------------------------------------
(* Properties of the Date marshal pipeline                                 *)

\* C25: while a Date field is marshaled, cast_to_date is never invoked when
\* the field is read-only, and when it is invoked the read_only pipe has
\* been called before it.
C25_ReadOnlyBeforeCastToDate ==
    (field.cls = "Date" /\ direction = "marshal"
        /\ last.pipe = "cast_to_date" /\ last.invoked) =>
        /\ ~field.opts.read_only
        /\ \E i \in 1..(Len(log) - 1) : log[i] = "read_only"

----------------------------------------------------------------------------
(* Properties of naming a field over time                                  *)

\* C26: no call of set_name and no assignment through the name setter
\* changes a name, attribute_name or source that holds a non-empty value;
\* an assignment through the setter that changes the name found it unset,
\* and leaves a source that was unset equal to the new name.
C26_FirstWriterWins ==
    [][/\ Truthy(field.opts.name) => field'.opts.name = field.opts.name
       /\ Truthy(field.opts.attribute_name) =>
             field'.opts.attribute_name = field.opts.attribute_name
       /\ Truthy(field.opts.source) => field'.opts.source = field.opts.source
       /\ (setter_calls' # setter_calls
             /\ field'.opts.name # field.opts.name) =>
             /\ ~Truthy(field.opts.name)
             /\ ~Truthy(field.opts.source) =>
                   field'.opts.source = field'.opts.name]_vars

\* The setter has been given two names, one after the other, and the field
\* has the first of them as name and source.
C26_Witness ==
    /\ setter_calls = 2
    /\ supplied = {"a", "b"}
    /\ ~Truthy(given.name) /\ ~Truthy(given.attribute_name)
    /\ ~Truthy(given.source)
    /\ field.opts.name \in {"a", "b"}
    /\ field.opts.source = field.opts.name

----------------------------------------------------------------------------
(* Properties of Collections that are named                                *)

\* C27: a Collection that has been given a name, at construction or through
\* its name setter, has that name: the name read through its inner field
\* is the one it was given; and constructing a Collection around a field
\* that a named Collection wraps already raises FieldError.
C27_CollectionAndInnerShareName ==
    \A i \in 1..Len(collections) :
        LET c == collections[i]
        IN  /\ (c.exc = "none" /\ Truthy(c.opts.name)) =>
                  /\ CollectionFieldOpts_get_name(field).exc = "none"
                  /\ CollectionFieldOpts_get_name(field).value = c.opts.name
            /\ c.after_named => c.exc = "FieldError"

----------------------------------------------------------------------------
(* Properties of the error message tables over time                        *)

\* C28: constructing a field leaves the default table what it is in the
\* source and leaves the error_msgs of every field constructed before as
\* they were; a field constructed with no error_msgs option, of a class
\* without extra_error_msgs, has exactly the default messages.
C28_ErrorMsgsAreOwned ==
    [][/\ msgs'.defaults = DEFAULT_ERROR_MSGS
       /\ \A i \in 1..Len(msgs.fields) : msgs'.fields[i] = msgs.fields[i]
       /\ \A i \in 1..Len(msgs'.fields) :
             LET m == msgs'.fields[i]
             IN  (~m.option.passed /\ m.extra_error_msgs = EmptyMap) =>
                    m.error_msgs = DEFAULT_ERROR_MSGS]_vars

\* A field with the default messages has been constructed after a field
\* whose error_msgs option replaced a default message.
C28_Witness ==
    /\ Len(msgs.fields) = 2
    /\ msgs.fields[1].option.passed
    /\ "required" \in DOMAIN msgs.fields[1].option.value
    /\ msgs.fields[1].error_msgs # DEFAULT_ERROR_MSGS
    /\ ~msgs.fields[2].option.passed
    /\ msgs.fields[2].extra_error_msgs = EmptyMap
    /\ msgs.fields[2].error_msgs = DEFAULT_ERROR_MSGS

====
